---- MODULE Spec2Model ----
(***************************************************************************)
(* A model of the `signed` crate: branded Containers, Indexes and Ranges.  *)
(*                                                                         *)
(* The state is that of a client program running inside region() calls:    *)
(* the heap the storages live in, the Containers that are alive, and the   *)
(* Range / Index / RangeIter values the client holds.  Every action is one *)
(* call of the crate's safe public API.  A brand (the type parameter C of  *)
(* Container<C, A>, Index<C, P>, Range<C, P>) is modelled as a value, and  *)
(* the type checker's demand that the brands of the receiver and of the    *)
(* argument are the same type is the guard SameBrand of the action.        *)
(***************************************************************************)
EXTENDS Integers, Sequences, FiniteSets, TLC

\* ------------------------------------------------------------------ bounds
MemSize == 2      \* cells of the heap the storages are windows of
UsizeMax == 7     \* usize::MAX in the model (the crate's is the target's)
MaxConts == 3     \* Containers alive at the same time

Modulus == UsizeMax + 1
Usize == 0 .. (Modulus - 1)
Val == 1 .. MemSize
Slots == 1 .. MaxConts

VARIABLES
    mem,            \* the heap: mem[a + 1] is the element at address a
    conts,          \* slot -> Container (or NoCont)
    rng,            \* the Range the client holds (or NoRange)
    idx,            \* the Index the client holds (or NoIndex)
    held,           \* a second Index the client kept (or NoIndex)
    iter,           \* the RangeIter the client holds (or NoIter)
    lastOp,         \* what the last call did: op, container, accesses, result
    overflowChecks, \* the build: TRUE panics on integer overflow, FALSE wraps
    status          \* "running", "panicked" (unwinding) or "ub"

vars == <<mem, conts, rng, idx, held, iter, lastOp, overflowChecks, status>>

\* ------------------------------------------------------- usize arithmetic
\* A panicking computation poisons its result.
Poison == 0 - 1

usub(a, b) ==
    IF a = Poison \/ b = Poison THEN Poison
    ELSE IF a >= b THEN a - b
    ELSE IF overflowChecks THEN Poison
    ELSE a - b + Modulus

uadd(a, b) ==
    IF a = Poison \/ b = Poison THEN Poison
    ELSE IF a + b < Modulus THEN a + b
    ELSE IF overflowChecks THEN Poison
    ELSE a + b - Modulus

uhalf(a) == IF a = Poison THEN Poison ELSE a \div 2

\* ------------------------------------------------------------------ brands
\* Signed<'id>: the lifetime 'id of one region() call, and the path of
\* opaque `impl Contract` types derived from it by the split methods.
RegionBrand(n) == [id |-> n, path |-> <<>>]

\* The brand of a Container returned by a split method: the opaque return
\* type is a function of the method's generic parameters (the parent's brand)
\* and of the place of the `impl` in the signature, not of the call.
Sealed(parent, place) == [id |-> parent.id, path |-> Append(parent.path, place)]

\* ---------------------------------------------------------------- values
NoCont == [brand |-> RegionBrand(0), off |-> 0, len |-> 0, how |-> "none", par |-> 0, slot |-> 0]
NoRange == [brand |-> RegionBrand(0), start |-> 0, end |-> 0, proof |-> "none", org |-> 0]
NoIndex == [brand |-> RegionBrand(0), index |-> 0, proof |-> "none", org |-> 0]
NoIter ==
    [brand |-> RegionBrand(0), start |-> 0, end |-> 0, live |-> FALSE, org |-> 0,
     from |-> 0, to |-> 0]
NoOp == [op |-> "none", c |-> 0, acc |-> <<>>, res |-> <<>>, org |-> 0, pred |-> {}]

Live == {c \in Slots : conts[c].how # "none"}
Free == Slots \ Live

\* Container::new
Container_new(brand, off, len, how, par) ==
    [brand |-> brand, off |-> off, len |-> len, how |-> how, par |-> par, slot |-> 0]

\* Index::new (unsafe: callable by the crate's own code only)
Index_new(index, brand, proof, org) ==
    [brand |-> brand, index |-> index, proof |-> proof, org |-> org]

\* Index::integer
integer(i) == i.index

\* Range::from_unknown / from_nonempty / from_any
from_any(start, end, brand, proof, org) ==
    [brand |-> brand, start |-> start, end |-> end, proof |-> proof, org |-> org]

from_unknown(start, end, brand, org) == from_any(start, end, brand, "Unknown", org)

from_nonempty(start, end, brand, org) == from_any(start, end, brand, "NonEmpty", org)

\* ------------------------------------------------------ Range, as computed
\* Range::len
Range_len(r) == usub(r.end, r.start)

\* Range::is_empty
Range_is_empty(r) == r.start >= r.end

\* Range::assume_nonempty
assume_nonempty(r) == from_nonempty(r.start, r.end, r.brand, r.org)

\* Range::nonempty: Some(range) or None (NoRange)
\* a nonempty that accepts start = end
nonempty_or_equal(r) == IF r.start <= r.end THEN assume_nonempty(r) ELSE NoRange

nonempty(r) == IF ~Range_is_empty(r) THEN assume_nonempty(r) ELSE NoRange

\* Range::first
first(r) == Index_new(r.start, r.brand, r.proof, r.org)

\* Range::upper_middle
upper_middle(r) == Index_new(uadd(uhalf(Range_len(r)), r.start), r.brand, r.proof, r.org)

\* Range::split_in_half
split_in_half(r) ==
    LET mid == uadd(uhalf(usub(r.end, r.start)), r.start)
    IN  <<from_unknown(r.start, mid, r.brand, r.org),
          from_any(mid, r.end, r.brand, r.proof, r.org)>>

\* Range::split_index
split_index(r, index) ==
    <<from_unknown(r.start, integer(index), r.brand, r.org),
      from_any(integer(index), r.end, r.brand, r.proof, r.org)>>

\* Range::contains: Some(index) or None (NoIndex)
contains(r, index) ==
    IF index >= r.start /\ index < r.end
    THEN Index_new(index, r.brand, r.proof, r.org)
    ELSE NoIndex

\* Range::last
last(r) == Index_new(usub(r.end, 1), r.brand, "NonEmpty", r.org)

\* Range::tail
tail(r) == from_unknown(uadd(r.start, 1), r.end, r.brand, r.org)

\* Range::head
head(r) == from_unknown(r.start, usub(r.end, 1), r.brand, r.org)

\* Range::advance_back: <<the range afterwards, the value returned>>
advance_back(r) ==
    LET next == [r EXCEPT !.end = usub(r.end, 1)]
    IN  IF next.end = Poison THEN <<next, FALSE>>
        ELSE IF next.start < next.end THEN <<next, TRUE>> ELSE <<r, FALSE>>

\* Range::advance: <<the range afterwards, the value returned>>
advance(r) ==
    LET next == [r EXCEPT !.start = uadd(r.start, 1)]
    IN  IF next.start = Poison THEN <<next, FALSE>>
        ELSE IF next.start < next.end THEN <<next, TRUE>> ELSE <<r, FALSE>>

\* A computed Range or Index that a panic interrupted.
PoisonedRange(r) == r.start = Poison \/ r.end = Poison
PoisonedIndex(i) == i.index = Poison


\* ------------------------------------------------------ RangeIter (range.rs)
\* IntoIterator for Range<C, P>
\* (from and to keep the span of the Range the iterator was made of)
into_iter(r) ==
    [brand |-> r.brand, start |-> r.start, end |-> r.end, live |-> TRUE, org |-> r.org,
     from |-> r.start, to |-> r.end]

\* RangeIter::next: <<the iterator afterwards, Some(index) or None (NoIndex)>>
next(it) ==
    IF it.start < it.end
    THEN <<[it EXCEPT !.start = uadd(it.start, 1)],
           Index_new(it.start, it.brand, "NonEmpty", it.org)>>
    ELSE <<it, NoIndex>>

\* RangeIter::next_back
next_back(it) ==
    IF it.start < it.end
    THEN <<[it EXCEPT !.end = usub(it.end, 1)],
           Index_new(usub(it.end, 1), it.brand, "NonEmpty", it.org)>>
    ELSE <<it, NoIndex>>

\* ExactSizeIterator::len for RangeIter
RangeIter_len(it) == usub(it.end, it.start)

\* ------------------------------------------------------------- the client
Init ==
    /\ mem = [a \in 1 .. MemSize |-> a]
    /\ conts = [c \in Slots |-> NoCont]
    /\ rng = NoRange
    /\ idx = NoIndex
    /\ held = NoIndex
    /\ iter = NoIter
    /\ lastOp = NoOp
    /\ overflowChecks \in BOOLEAN
    /\ status = "running"

Op(op, c, acc, res, org) ==
    [op |-> op, c |-> c, acc |-> acc, res |-> res, org |-> org, pred |-> {}]

\* A scan call with the closure f: pred is the set of the values f is true of.
Scanned(op, f) == [op EXCEPT !.pred = f]

\* A call on a Range, an Index or a RangeIter: it touches no Container.
Called(op) == Op(op, 0, <<>>, <<>>, 0)

\* Such a call that returned a bool, or an Option that is Some (TRUE) or None.
Returned(op, b) == Op(op, 0, <<>>, <<b>>, 0)

\* The call did not return: it panicked (st = "panicked") or it accessed
\* memory outside the storage (st = "ub").
Stop(st, op) ==
    /\ status' = st
    /\ lastOp' = op
    /\ UNCHANGED <<mem, conts, rng, idx, held, iter, overflowChecks>>

\* The call returned a Range, which the client stores.
ReturnRange(r, op) ==
    IF PoisonedRange(r) THEN Stop("panicked", op)
    ELSE /\ rng' = r
         /\ lastOp' = op
         /\ UNCHANGED <<mem, conts, idx, held, iter, overflowChecks, status>>

\* The call returned an Index, which the client stores.
ReturnIndex(i, op) ==
    IF PoisonedIndex(i) THEN Stop("panicked", op)
    ELSE /\ idx' = i
         /\ lastOp' = op
         /\ UNCHANGED <<mem, conts, rng, held, iter, overflowChecks, status>>

\* The type checker: the argument's brand is the receiver's brand.
SameBrand(x, y) == x.brand = y.brand

HasRange == rng.proof # "none"
HasNonEmptyRange == rng.proof = "NonEmpty"

\* The Indexes of type Index<C> (proof NonEmpty, the default) the client holds.
HeldIndexes == {i \in {idx, held} : i.proof = "NonEmpty"}

\* let held = idx;
Keep ==
    /\ status = "running"
    /\ idx.proof # "none"
    /\ held' = idx
    /\ lastOp' = Called("keep")
    /\ UNCHANGED <<mem, conts, rng, idx, iter, overflowChecks, status>>

Nonempty ==
    /\ status = "running"
    /\ HasRange
    /\ LET r == nonempty(rng)
       IN  IF r = NoRange
           THEN /\ lastOp' = Returned("nonempty", FALSE)
                /\ UNCHANGED <<mem, conts, rng, idx, held, iter, overflowChecks, status>>
           ELSE ReturnRange(r, Returned("nonempty", TRUE))

First ==
    /\ status = "running"
    /\ HasRange
    /\ ReturnIndex(first(rng), Called("first"))

UpperMiddle ==
    /\ status = "running"
    /\ HasRange
    /\ ReturnIndex(upper_middle(rng), Called("upper_middle"))

Last ==
    /\ status = "running"
    /\ HasNonEmptyRange
    /\ ReturnIndex(last(rng), Called("last"))

Contains ==
    /\ status = "running"
    /\ HasRange
    /\ \E n \in 0 .. MemSize :
          LET i == contains(rng, n)
          IN  IF i = NoIndex
              THEN /\ lastOp' = Called("contains")
                   /\ UNCHANGED <<mem, conts, rng, idx, held, iter, overflowChecks, status>>
              ELSE ReturnIndex(i, Called("contains"))

SplitInHalf ==
    /\ status = "running"
    /\ HasRange
    /\ \E half \in 1 .. 2 :
          LET both == split_in_half(rng)
          IN  IF PoisonedRange(both[1]) \/ PoisonedRange(both[2])
              THEN Stop("panicked", Called("split_in_half"))
              ELSE ReturnRange(both[half], Called("split_in_half"))

SplitIndex ==
    /\ status = "running"
    /\ HasRange
    /\ \E i \in HeldIndexes, half \in 1 .. 2 :
          /\ SameBrand(i, rng)
          /\ ReturnRange(split_index(rng, i)[half], Called("split_index"))

RangeTail ==
    /\ status = "running"
    /\ HasNonEmptyRange
    /\ ReturnRange(tail(rng), Called("tail"))

RangeHead ==
    /\ status = "running"
    /\ HasNonEmptyRange
    /\ ReturnRange(head(rng), Called("head"))

Advance ==
    /\ status = "running"
    /\ HasNonEmptyRange
    /\ ReturnRange(advance(rng)[1], Returned("advance", advance(rng)[2]))

AdvanceBack ==
    /\ status = "running"
    /\ HasNonEmptyRange
    /\ ReturnRange(advance_back(rng)[1], Returned("advance_back", advance_back(rng)[2]))

IntoIter ==
    /\ status = "running"
    /\ HasRange
    /\ iter' = into_iter(rng)
    /\ lastOp' = Called("into_iter")
    /\ UNCHANGED <<mem, conts, rng, idx, held, overflowChecks, status>>

\* The call returned Some(index) or None, and left the iterator as got[1].
Yield(got, op) ==
    IF got[1].start = Poison \/ got[1].end = Poison \/ PoisonedIndex(got[2])
    THEN Stop("panicked", Called(op))
    ELSE /\ iter' = got[1]
         /\ idx' = IF got[2] = NoIndex THEN idx ELSE got[2]
         /\ lastOp' = Returned(op, got[2] # NoIndex)
         /\ UNCHANGED <<mem, conts, rng, held, overflowChecks, status>>

IterNext ==
    /\ status = "running"
    /\ iter.live
    /\ Yield(next(iter), "next")

IterNextBack ==
    /\ status = "running"
    /\ iter.live
    /\ Yield(next_back(iter), "next_back")

\* ExactSizeIterator::len is called on the iterator.
IterLen ==
    /\ status = "running"
    /\ iter.live
    /\ IF RangeIter_len(iter) = Poison
       THEN Stop("panicked", Called("iter_len"))
       ELSE /\ lastOp' = Op("iter_len", 0, <<>>, <<RangeIter_len(iter)>>, 0)
            /\ UNCHANGED <<mem, conts, rng, idx, held, iter, overflowChecks, status>>

\* ------------------------------------------------- Container (container.rs)
\* Container::len (ContainerTrait::base_len of the storage)
Container_len(k) == k.len

\* Container::is_empty
\* an emptiness test that is off by one
Container_is_empty_off_by_one(k) == Container_len(k) <= 1

Container_is_empty(k) == Container_len(k) = 0

\* Container::range
range(k) == from_unknown(0, Container_len(k), k.brand, k.slot)

\* Container::split_at_index
split_at_index(k, index) ==
    <<from_unknown(0, integer(index), k.brand, k.slot),
      from_any(integer(index), Container_len(k), k.brand, index.proof, k.slot)>>

\* Index::after
after(i) == [i EXCEPT !.index = uadd(i.index, 1)]

\* GetUnchecked::unchecked for [T]: the element at position p of the storage
unchecked(k, p) == mem[k.off + p + 1]

\* The storage of Container k holds position p.
InStorage(k, p) == p >= 0 /\ p < Container_len(k)

\* the elements at positions from, from + 1, ..., from + n - 1
Elements(k, from, n) == [j \in 1 .. n |-> unchecked(k, from + j - 1)]

\* the positions from, from + 1, ..., from + n - 1
Positions(from, n) == [j \in 1 .. n |-> from + j - 1]

Reverse(s) == [j \in 1 .. Len(s) |-> s[Len(s) + 1 - j]]

\* The borrow checker.  A method taking &self needs the Container not to be
\* borrowed mutably, a method taking &mut self needs it not to be borrowed at
\* all; the Containers a split method returns borrow their parent for as long
\* as they are alive.
MutHow == {"split_at_mut", "split_first_mut"}
Children(c) == {d \in Live : conts[d].par = c}
Borrowable(c) == c \in Live /\ \A d \in Children(c) : conts[d].how \notin MutHow
BorrowableMut(c) == c \in Live /\ Children(c) = {}

\* The storage is a &mut [T]: the impls of GetUncheckedMut, ContiguousMut and
\* SplitUncheckedMut exist for it (a Container returned by split_at or
\* split_first holds a &[T]).
StorageIsMut(k) == k.how \in {"region"} \cup MutHow

LowestFree == CHOOSE s \in Free : \A t \in Free : s <= t
SecondFree == CHOOSE s \in Free \ {LowestFree} : \A t \in Free \ {LowestFree} : s <= t

\* The client binds the Containers a call returned, `let (lhs, _) = ...`,
\* `let (_, rhs) = ...` or `let (lhs, rhs) = ...`: those it binds are alive.
Bind(pair, keep) ==
    IF keep = "lhs" THEN [conts EXCEPT ![LowestFree] = [pair[1] EXCEPT !.slot = LowestFree]]
    ELSE IF keep = "rhs" THEN [conts EXCEPT ![LowestFree] = [pair[2] EXCEPT !.slot = LowestFree]]
    ELSE [conts EXCEPT ![LowestFree] = [pair[1] EXCEPT !.slot = LowestFree],
                       ![SecondFree] = [pair[2] EXCEPT !.slot = SecondFree]]

Needs(keep) == IF keep = "both" THEN 2 ELSE 1

\* A fresh identity: the lifetime 'id of `for<'id> FnOnce(Container<Signed<'id>, C>)`
\* is one no other region's Container, Index or Range has.
RegionIds == {conts[c].brand.id : c \in {d \in Live : conts[d].how = "region"}}
\* a region that hands out the brand of a live region again
mint_reused == IF RegionIds = {} THEN 1 ELSE CHOOSE n \in RegionIds : TRUE

mint == 1 + (CHOOSE n \in RegionIds \cup {0} : \A m \in RegionIds : m <= n)

\* The storages of the regions are allocated one after the other in the heap.
Allocated == IF Live = {} THEN 0
             ELSE LET top == CHOOSE d \in Live : \A e \in Live :
                                conts[e].off + conts[e].len <= conts[d].off + conts[d].len
                  IN  conts[top].off + conts[top].len

\* region(container, f): the storage is a &mut [T] over the cells off .. off + len - 1
RegionOver(off, len) ==
          /\ status = "running"
          /\ Free # {}
          /\ off = Allocated
          /\ off + len <= MemSize
          /\ conts' = [conts EXCEPT ![LowestFree] =
                          [Container_new(RegionBrand(mint), off, len, "region", 0)
                              EXCEPT !.slot = LowestFree]]
          /\ lastOp' = Op("region", LowestFree, <<>>, <<off, len>>, 0)
          /\ UNCHANGED <<mem, rng, idx, held, iter, overflowChecks, status>>

Region == \E len \in 0 .. MemSize : RegionOver(Allocated, len)

ContainerRange ==
    /\ status = "running"
    /\ \E c \in Live :
          /\ Borrowable(c)
          /\ ReturnRange(range(conts[c]), Op("range", c, <<>>, <<>>, c))

SplitAtIndex ==
    /\ status = "running"
    /\ \E c \in Live, i \in {idx, held}, half \in 1 .. 2 :
          /\ Borrowable(c)
          /\ i.proof # "none"
          /\ SameBrand(i, conts[c])
          /\ LET both == split_at_index(conts[c], i)
             IN  ReturnRange(both[half],
                             Op("split_at_index", c, <<>>,
                                <<both[1].start, both[1].end, both[2].start, both[2].end>>,
                                i.org))

\* ops::Index<Index<C>> for Container: &self[i]
IndexGet ==
    /\ status = "running"
    /\ \E c \in Live, i \in HeldIndexes :
          /\ Borrowable(c)
          /\ SameBrand(i, conts[c])
          /\ IF InStorage(conts[c], integer(i))
             THEN /\ lastOp' = Op("index", c, <<integer(i)>>,
                                  <<unchecked(conts[c], integer(i))>>, i.org)
                  /\ UNCHANGED <<mem, conts, rng, idx, held, iter, overflowChecks, status>>
             ELSE Stop("ub", Op("index", c, <<integer(i)>>, <<>>, i.org))

\* ops::IndexMut<Index<C>> for Container: self[i] = v
IndexMut ==
    /\ status = "running"
    /\ \E c \in Live, i \in HeldIndexes, v \in Val :
          /\ BorrowableMut(c)
          /\ StorageIsMut(conts[c])
          /\ SameBrand(i, conts[c])
          /\ IF InStorage(conts[c], integer(i))
             THEN /\ mem' = [mem EXCEPT ![conts[c].off + integer(i) + 1] = v]
                  /\ lastOp' = Op("index_mut", c, <<integer(i)>>, <<v>>, i.org)
                  /\ UNCHANGED <<conts, rng, idx, held, iter, overflowChecks, status>>
             ELSE Stop("ub", Op("index_mut", c, <<integer(i)>>, <<>>, i.org))

\* core::ptr::swap of the cells at addresses x and y
\* a swap that copies one way only (*pa = *pb)
ptr_swap_one_way(m, x, y) == [m EXCEPT ![x + 1] = m[y + 1]]

ptr_swap(m, x, y) == [m EXCEPT ![x + 1] = m[y + 1], ![y + 1] = m[x + 1]]

\* Container::swap
Swap ==
    /\ status = "running"
    /\ \E c \in Live, a \in HeldIndexes, b \in HeldIndexes :
          /\ BorrowableMut(c)
          /\ StorageIsMut(conts[c])
          /\ SameBrand(a, conts[c])
          /\ SameBrand(b, conts[c])
          /\ IF InStorage(conts[c], integer(a)) /\ InStorage(conts[c], integer(b))
             THEN /\ mem' = ptr_swap(mem, conts[c].off + integer(a), conts[c].off + integer(b))
                  /\ lastOp' = Op("swap", c, <<integer(a), integer(b)>>, <<>>, a.org)
                  /\ UNCHANGED <<conts, rng, idx, held, iter, overflowChecks, status>>
             ELSE Stop("ub", Op("swap", c, <<integer(a), integer(b)>>, <<>>, a.org))

\* ops::Index<Range<C, P>> for Container: &self[r]
IndexRange ==
    /\ status = "running"
    /\ HasRange
    /\ \E c \in Live :
          /\ Borrowable(c)
          /\ SameBrand(rng, conts[c])
          /\ LET n == Range_len(rng)
             IN  IF n = Poison
                 THEN Stop("panicked", Op("index_range", c, <<>>, <<>>, rng.org))
                 ELSE IF rng.start + n <= Container_len(conts[c])
                 THEN /\ lastOp' = Op("index_range", c, Positions(rng.start, n),
                                      Elements(conts[c], rng.start, n), rng.org)
                      /\ UNCHANGED <<mem, conts, rng, idx, held, iter, overflowChecks, status>>
                 ELSE Stop("ub", Op("index_range", c, Positions(rng.start, n), <<>>, rng.org))

\* The number of leading elements of s the predicate holds of; the predicate
\* is the set of the values it is true of.
RECURSIVE ScanCount(_, _)
ScanCount(s, f) ==
    IF s = <<>> \/ Head(s) \notin f THEN 0 ELSE 1 + ScanCount(Tail(s), f)

\* a scan_from that leaves out the final end += 1
scan_from_open_end(k, index, f) ==
    LET from == integer(after(index))
        n == ScanCount(Elements(k, from, Container_len(k) - from), f)
    IN  from_nonempty(integer(index), uadd(integer(index), n), k.brand, k.slot)

\* Container::scan_from, given the slice &self[index.after()..] is in the storage
scan_from(k, index, f) ==
    LET from == integer(after(index))
        n == ScanCount(Elements(k, from, Container_len(k) - from), f)
    IN  from_nonempty(integer(index), uadd(uadd(integer(index), n), 1), k.brand, k.slot)

\* a scan_from that iterates over &self[index..]
scan_from_calls_from_seed(k, index, f) ==
    LET from == integer(index)
        total == Container_len(k) - from
        n == ScanCount(Elements(k, from, total), f)
    IN  Positions(from, IF n < total THEN n + 1 ELSE total)

\* The positions scan_from calls the predicate on, in the order of the calls.
scan_from_calls(k, index, f) ==
    LET from == integer(after(index))
        total == Container_len(k) - from
        n == ScanCount(Elements(k, from, total), f)
    IN  Positions(from, IF n < total THEN n + 1 ELSE total)

ScanFrom ==
    /\ status = "running"
    /\ \E c \in Live, i \in HeldIndexes, f \in SUBSET Val :
          /\ Borrowable(c)
          /\ SameBrand(i, conts[c])
          /\ LET from == integer(after(i))
                 total == usub(Container_len(conts[c]), from)
             IN  IF from = Poison \/ total = Poison
                 THEN Stop("panicked", Op("scan_from", c, <<>>, <<>>, i.org))
                 ELSE IF from > Container_len(conts[c])
                 THEN Stop("ub", Op("scan_from", c, <<from>>, <<>>, i.org))
                 ELSE ReturnRange(scan_from(conts[c], i, f),
                                  Scanned(Op("scan_from", c, scan_from_calls(conts[c], i, f),
                                             <<integer(i)>>, i.org), f))

\* a scan_from_rev whose end is index instead of index + 1
scan_from_rev_open_end(k, index, f) ==
    LET n == ScanCount(Reverse(Elements(k, 0, integer(index))), f)
    IN  from_nonempty(usub(integer(index), n), integer(index), k.brand, k.slot)

\* Container::scan_from_rev, given the slice &self[..index] is in the storage
scan_from_rev(k, index, f) ==
    LET n == ScanCount(Reverse(Elements(k, 0, integer(index))), f)
    IN  from_nonempty(usub(integer(index), n), uadd(integer(index), 1), k.brand, k.slot)

\* The positions scan_from_rev calls the predicate on, in the order of the calls.
scan_from_rev_calls(k, index, f) ==
    LET total == integer(index)
        n == ScanCount(Reverse(Elements(k, 0, total)), f)
        m == IF n < total THEN n + 1 ELSE total
    IN  [j \in 1 .. m |-> total - j]

ScanFromRev ==
    /\ status = "running"
    /\ \E c \in Live, i \in HeldIndexes, f \in SUBSET Val :
          /\ Borrowable(c)
          /\ SameBrand(i, conts[c])
          /\ IF integer(i) > Container_len(conts[c])
             THEN Stop("ub", Op("scan_from_rev", c, <<integer(i) - 1>>, <<>>, i.org))
             ELSE ReturnRange(scan_from_rev(conts[c], i, f),
                              Scanned(Op("scan_from_rev", c, scan_from_rev_calls(conts[c], i, f),
                                         <<integer(i)>>, i.org), f))


\* a split whose left window is ..=index instead of ..index
split_unchecked_lhs_inclusive(k, index) ==
    <<[off |-> k.off, len |-> index + 1],
      [off |-> k.off + index, len |-> k.len - index]>>

\* SplitUnchecked::split_unchecked for [T]: the two windows
split_unchecked(k, index) ==
    <<[off |-> k.off, len |-> index],
      [off |-> k.off + index, len |-> k.len - index]>>

\* a mutable split whose right window starts at the storage's first cell
split_unchecked_mut_rhs_at_base(k, index) ==
    <<[off |-> k.off, len |-> index],
      [off |-> k.off, len |-> usub(k.len, index)]>>

\* SplitUncheckedMut::split_unchecked_mut for [T]: the two windows
split_unchecked_mut(k, index) ==
    <<[off |-> k.off, len |-> index],
      [off |-> k.off + index, len |-> usub(k.len, index)]>>

\* Container::split_at
split_at(k, index) ==
    LET w == split_unchecked(k, integer(index))
    IN  <<Container_new(Sealed(k.brand, "split_at.0"), w[1].off, w[1].len, "split_at", k.slot),
          Container_new(Sealed(k.brand, "split_at.1"), w[2].off, w[2].len, "split_at", k.slot)>>

\* Container::split_at_mut
split_at_mut(k, index) ==
    LET w == split_unchecked_mut(k, integer(index))
    IN  <<Container_new(Sealed(k.brand, "split_at_mut.0"), w[1].off, w[1].len,
                        "split_at_mut", k.slot),
          Container_new(Sealed(k.brand, "split_at_mut.1"), w[2].off, w[2].len,
                        "split_at_mut", k.slot)>>

\* a split_first that cuts at position 0
split_first_at_zero(k) ==
    IF ~Container_is_empty(k)
    THEN LET split == split_at(k, Index_new(0, k.brand, "NonEmpty", k.slot))
         IN  [some |-> TRUE,
              first |-> unchecked(k, 0),
              rest |-> [split[2] EXCEPT !.brand = Sealed(k.brand, "split_first"),
                                        !.how = "split_first"]]
    ELSE [some |-> FALSE, first |-> 0, rest |-> NoCont]

\* Container::split_first: Some((first, rest)) or None
split_first(k) ==
    IF ~Container_is_empty(k)
    THEN LET split == split_at(k, Index_new(1, k.brand, "NonEmpty", k.slot))
         IN  [some |-> TRUE,
              first |-> unchecked(split[1], 0),
              rest |-> [split[2] EXCEPT !.brand = Sealed(k.brand, "split_first"),
                                        !.how = "split_first"]]
    ELSE [some |-> FALSE, first |-> 0, rest |-> NoCont]

\* Container::split_first_mut: Some((first, rest)) or None
split_first_mut(k) ==
    IF ~Container_is_empty(k)
    THEN LET split == split_at_mut(k, Index_new(1, k.brand, "NonEmpty", k.slot))
         IN  [some |-> TRUE,
              first |-> unchecked(split[1], 0),
              rest |-> [split[2] EXCEPT !.brand = Sealed(k.brand, "split_first_mut"),
                                        !.how = "split_first_mut"]]
    ELSE [some |-> FALSE, first |-> 0, rest |-> NoCont]

\* Of a shared split the client binds one half a call (both halves are alive
\* after two calls); of a mutable split it binds both halves.
Keeps == {"lhs", "rhs"}
KeepsMut == {"both"}

\* The windows <<off, len, off, len>> of the two Containers a split returned.
Windows(pair) == <<pair[1].off, pair[1].len, pair[2].off, pair[2].len>>

SplitAt ==
    /\ status = "running"
    /\ \E c \in Live, i \in HeldIndexes, keep \in Keeps :
          /\ Borrowable(c)
          /\ SameBrand(i, conts[c])
          /\ Cardinality(Free) >= Needs(keep)
          /\ IF integer(i) > Container_len(conts[c])
             THEN Stop("ub", Op("split_at", c, <<integer(i)>>, <<>>, i.org))
             ELSE /\ conts' = Bind(split_at(conts[c], i), keep)
                  /\ lastOp' = Op("split_at", c, <<integer(i)>>, Windows(split_at(conts[c], i)), i.org)
                  /\ UNCHANGED <<mem, rng, idx, held, iter, overflowChecks, status>>

SplitAtMut ==
    /\ status = "running"
    /\ \E c \in Live, i \in HeldIndexes, keep \in KeepsMut :
          /\ BorrowableMut(c)
          /\ StorageIsMut(conts[c])
          /\ SameBrand(i, conts[c])
          /\ Cardinality(Free) >= Needs(keep)
          /\ LET pair == split_at_mut(conts[c], i)
             IN  IF pair[2].len = Poison
                 THEN Stop("panicked", Op("split_at_mut", c, <<>>, <<>>, i.org))
                 ELSE IF integer(i) > Container_len(conts[c])
                 THEN Stop("ub", Op("split_at_mut", c, <<integer(i)>>, <<>>, i.org))
                 ELSE /\ conts' = Bind(pair, keep)
                      /\ lastOp' = Op("split_at_mut", c, <<integer(i)>>, Windows(pair), i.org)
                      /\ UNCHANGED <<mem, rng, idx, held, iter, overflowChecks, status>>

\* The call returned Some((first, rest)) or None.
ReturnFirst(got, op, c) ==
    IF got.some
    THEN /\ Free # {}
         /\ conts' = Bind(<<got.rest, got.rest>>, "lhs")
         /\ lastOp' = Op(op, c, <<0>>, <<1, got.first, LowestFree>>, c)
         /\ UNCHANGED <<mem, rng, idx, held, iter, overflowChecks, status>>
    ELSE /\ lastOp' = Op(op, c, <<>>, <<0>>, c)
         /\ UNCHANGED <<mem, conts, rng, idx, held, iter, overflowChecks, status>>

SplitFirst ==
    /\ status = "running"
    /\ \E c \in Live :
          /\ Borrowable(c)
          /\ ReturnFirst(split_first(conts[c]), "split_first", c)

SplitFirstMut ==
    /\ status = "running"
    /\ \E c \in Live :
          /\ BorrowableMut(c)
          /\ StorageIsMut(conts[c])
          /\ ReturnFirst(split_first_mut(conts[c]), "split_first_mut", c)

\* The end of a Container's scope.  A region's closure returns after the
\* closures of the regions entered inside it, and with it every Index, Range
\* and RangeIter of its lifetime 'id goes; a Container a split returned is
\* dropped when its borrow of the parent ends, and the values branded with
\* its opaque type stay.
Gone(x, none, id) == IF x.brand.id = id THEN none ELSE x
Orphan(x, c) == IF x.org = c THEN [x EXCEPT !.org = 0] ELSE x

Drop ==
    /\ status = "running"
    /\ \E c \in Live :
          /\ Children(c) = {}
          /\ conts' = [conts EXCEPT ![c] = NoCont]
          /\ lastOp' = Op("drop", c, <<>>, <<>>, 0)
          /\ IF conts[c].how = "region"
             THEN /\ \A m \in RegionIds : m <= conts[c].brand.id
                  /\ rng' = Gone(rng, NoRange, conts[c].brand.id)
                  /\ idx' = Gone(idx, NoIndex, conts[c].brand.id)
                  /\ held' = Gone(held, NoIndex, conts[c].brand.id)
                  /\ iter' = Gone(iter, NoIter, conts[c].brand.id)
             ELSE /\ rng' = Orphan(rng, c)
                  /\ idx' = Orphan(idx, c)
                  /\ held' = Orphan(held, c)
                  /\ iter' = Orphan(iter, c)
          /\ UNCHANGED <<mem, overflowChecks, status>>

\* ------------------------------------------------------------ the programs
\* One region: the client works on one Container, its Ranges and its Indexes.
Enter == Live = {} /\ \E len \in 0 .. MemSize : RegionOver(0, len)

NextRange ==
    \/ Enter
    \/ ContainerRange
    \/ SplitAtIndex
    \/ IndexGet
    \/ IndexRange
    \/ ScanFrom
    \/ ScanFromRev
    \/ Nonempty
    \/ First
    \/ UpperMiddle
    \/ Last
    \/ Contains
    \/ SplitInHalf
    \/ SplitIndex
    \/ RangeTail
    \/ RangeHead
    \/ Advance
    \/ AdvanceBack

SpecRange == Init /\ [][NextRange]_vars


\* Several regions, entered one inside the other or one after the other.
NextBrand ==
    \/ Region
    \/ Drop
    \/ ContainerRange
    \/ Nonempty
    \/ First
    \/ Last
    \/ SplitAtIndex
    \/ IndexGet
    \/ IndexRange
    \/ ScanFrom
    \/ Swap

SpecBrand == Init /\ [][NextBrand]_vars

\* One region whose Container the client splits into sub-Containers.
NextSplit ==
    \/ Enter
    \/ ContainerRange
    \/ Nonempty
    \/ First
    \/ Last
    \/ IndexGet
    \/ SplitAt
    \/ SplitAtMut
    \/ SplitFirst
    \/ SplitFirstMut

SpecSplit == Init /\ [][NextSplit]_vars

\* One region whose Container the client splits mutably, writing through the
\* halves.
NextSplitMut ==
    \/ Enter
    \/ Drop
    \/ ContainerRange
    \/ Nonempty
    \/ First
    \/ Last
    \/ Keep
    \/ IndexMut
    \/ Swap
    \/ SplitAtMut

SpecSplitMut == Init /\ [][NextSplitMut]_vars


\* ================================================================ claims
Regions == {c \in Live : conts[c].how = "region"}

\* The calls that take an Index or a Range of the Container's brand.
BrandedOps ==
    {"index", "index_mut", "swap", "index_range", "scan_from", "scan_from_rev",
     "split_at_index", "split_at", "split_at_mut"}

\* The value x, if the type checker accepts it for Container c, came from c.
OwnOrRejected(x, c) == SameBrand(x, conts[c]) => x.org = c

\* the elements of the heap window of n cells at address off
WindowElements(off, n) == [j \in 1 .. n |-> mem[off + j]]

\* C1: the Containers of two regions alive together have different brands, so
\* an Index, Range or RangeIter that the type checker accepts for the
\* Container of a region was obtained from that very Container, and every
\* indexing, split or scan call on it used a value obtained from it.
C1_BrandIsolation ==
    /\ \A c, d \in Regions : c # d => conts[c].brand # conts[d].brand
    /\ \A c \in Regions :
          /\ OwnOrRejected(idx, c)
          /\ OwnOrRejected(held, c)
          /\ OwnOrRejected(rng, c)
          /\ OwnOrRejected(iter, c)
    /\ (lastOp.op \in BrandedOps /\ lastOp.c \in Regions) => lastOp.org = lastOp.c

\* Two regions are alive, the client holds an Index of the first that is
\* outside the storage of the second, and has just read the first with it.
C1_Witness ==
    \E c, d \in Regions :
        /\ c # d
        /\ idx.proof = "NonEmpty" /\ idx.org = c
        /\ integer(idx) >= Container_len(conts[d])
        /\ lastOp.op = "index" /\ lastOp.c = c /\ lastOp.org = c
        /\ status = "running"

\* C2: every Index<C> (proof NonEmpty) the client holds is inside the storage
\* of the Container of its brand, and no indexing call leaves the storage.
C2_IndexWithinStorage ==
    /\ \A i \in HeldIndexes, c \in Live :
          SameBrand(i, conts[c]) => integer(i) < Container_len(conts[c])
    /\ lastOp.op = "index" => status = "running"

\* C3: a Range with proof NonEmpty has start < end.
C3_NonEmptyRangeIsNonEmpty ==
    rng.proof = "NonEmpty" => rng.start < rng.end

\* C4: a Range has start <= end <= len() of the Container of its brand, so
\* Range::len() does not underflow and Container[range] stays in the storage.
C4_RangeWithinStorage ==
    /\ HasRange => \A c \in Live :
          SameBrand(rng, conts[c]) =>
              rng.start <= rng.end /\ rng.end <= Container_len(conts[c])
    /\ lastOp.op = "index_range" => status = "running"


SplitOps == {"split_at", "split_at_mut"}
SplitFirstOps == {"split_first", "split_first_mut"}
WriteOps == {"index_mut", "swap"}
SplitChildren == {d \in Live : conts[d].how # "region"}

\* C5: a Container returned by a split has a brand different from its
\* parent's and from that of every other Container of a different length, the
\* halves of another split_at call on the same parent included; so every
\* indexing or split call on it used an Index obtained from it.
C5_SplitBrandsDistinct ==
    /\ \A d \in SplitChildren : conts[d].brand # conts[conts[d].par].brand
    /\ \A d \in SplitChildren, c \in Live :
          Container_len(conts[c]) # Container_len(conts[d])
              => conts[c].brand # conts[d].brand
    /\ lastOp.op \in BrandedOps => lastOp.org = lastOp.c

\* C6: split_at and split_at_mut at an Index i with 0 <= i <= len() return
\* halves with left.len() = i and left.len() + right.len() = len().
C6_SplitLengths ==
    (lastOp.op \in SplitOps /\ status = "running") =>
        /\ lastOp.res[2] = lastOp.acc[1]
        /\ lastOp.res[2] + lastOp.res[4] = Container_len(conts[lastOp.c])

\* split_at_mut has just cut a Container into two non-empty halves.
C6_Witness ==
    /\ lastOp.op = "split_at_mut" /\ status = "running"
    /\ lastOp.res[2] >= 1 /\ lastOp.res[4] >= 1

\* C7: the elements of the left half followed by the elements of the right
\* half are the elements of the split Container, in order.
C7_SplitConcatenation ==
    (lastOp.op \in SplitOps /\ status = "running") =>
        WindowElements(lastOp.res[1], lastOp.res[2])
            \o WindowElements(lastOp.res[3], lastOp.res[4])
          = Elements(conts[lastOp.c], 0, Container_len(conts[lastOp.c]))

\* Both split_at and split_at_mut occur with two non-empty halves.
C7_Witness ==
    /\ lastOp.op \in SplitOps /\ status = "running"
    /\ lastOp.res[2] = 1 /\ lastOp.res[4] = 1
    /\ Elements(conts[lastOp.c], 0, 2) = <<1, 2>>

\* C8: the halves of split_at_mut are disjoint and cover the parent, a write
\* or swap through a half stays inside that half, and the parent is not used
\* while a half is alive.
C8_MutableHalvesIsolated ==
    /\ (lastOp.op = "split_at_mut" /\ status = "running") =>
          /\ lastOp.res[1] = conts[lastOp.c].off
          /\ lastOp.res[3] = lastOp.res[1] + lastOp.res[2]
          /\ lastOp.res[2] + lastOp.res[4] = Container_len(conts[lastOp.c])
    /\ (lastOp.op \in WriteOps /\ lastOp.c \in SplitChildren) =>
          /\ status = "running"
          /\ \A j \in 1 .. Len(lastOp.acc) : InStorage(conts[lastOp.c], lastOp.acc[j])
    /\ \A c \in Live :
          (Children(c) # {} /\ lastOp.c = c) => lastOp.op \in SplitOps \cup {"region"}

\* the Container the last split_first or split_first_mut call returned
Rest == conts[lastOp.res[3]]

\* C9: on a Container of length L >= 1, split_first and split_first_mut
\* return element 0 and a Container of length L - 1 over positions 1 .. L-1;
\* for L = 1 that Container is empty and its range() has no nonempty().
C9_SplitFirst ==
    (lastOp.op \in SplitFirstOps /\ Container_len(conts[lastOp.c]) >= 1) =>
        LET k == conts[lastOp.c]
            L == Container_len(k)
        IN  /\ lastOp.res[1] = 1
            /\ lastOp.res[2] = unchecked(k, 0)
            /\ lastOp.acc = <<0>>
            /\ Container_len(Rest) = L - 1
            /\ Rest.off = k.off + 1
            /\ Elements(Rest, 0, Container_len(Rest)) = Elements(k, 1, L - 1)
            /\ L = 1 => /\ Container_is_empty(Rest)
                        /\ nonempty(range(Rest)) = NoRange

\* split_first_mut of a Container of one element returned that element and
\* an empty Container.
C9_Witness ==
    /\ lastOp.op = "split_first_mut"
    /\ Container_len(conts[lastOp.c]) = 1
    /\ lastOp.res[1] = 1
    /\ Container_is_empty(Rest)

\* split_first of a Container of two elements returned a remainder of one.
C9_WitnessLonger ==
    /\ lastOp.op = "split_first"
    /\ Container_len(conts[lastOp.c]) = 2
    /\ Container_len(Rest) = 1

\* split_first and split_first_mut return Some exactly when the Container is
\* non-empty; on an empty Container they return None, read no element and
\* split nothing.
NoneExactlyWhenEmpty ==
    lastOp.op \in SplitFirstOps =>
        /\ lastOp.res[1] = 1 <=> ~(Container_len(conts[lastOp.c]) = 0)
        /\ Container_len(conts[lastOp.c]) = 0 =>
              /\ lastOp.res = <<0>>
              /\ lastOp.acc = <<>>
              /\ \A d \in Children(lastOp.c) : conts[d].how \notin SplitFirstOps

\* a split_first or split_first_mut call that returns None leaves the
\* Containers and the storage as they were
NoneChangesNothing ==
    (lastOp'.op \in SplitFirstOps /\ lastOp'.res = <<0>>)
        => (conts' = conts /\ mem' = mem /\ status' = status)

\* C10: on an empty Container split_first and split_first_mut return None,
\* access no element, split nothing and leave the Container unchanged; they
\* return Some exactly when the Container is non-empty.
C10_SplitFirstOfEmpty == []NoneExactlyWhenEmpty /\ [][NoneChangesNothing]_vars

\* split_first_mut of an empty Container returned None.
C10_Witness ==
    /\ lastOp.op = "split_first_mut"
    /\ Container_len(conts[lastOp.c]) = 0
    /\ lastOp.res = <<0>>


\* One region whose elements the client swaps and overwrites.
NextSwap ==
    \/ Enter
    \/ ContainerRange
    \/ Nonempty
    \/ First
    \/ Last
    \/ Keep
    \/ IndexGet
    \/ IndexMut
    \/ Swap

SpecSwap == Init /\ [][NextSwap]_vars

\* the address of position p of the Container the coming call is made on
SwapCell(p) == conts[lastOp'.c].off + p + 1

\* A swap(a, b) with both positions in the storage exchanges the two elements
\* and changes no other cell and no Container.
SwapExchanges ==
    (lastOp'.op = "swap" /\ status' = "running") =>
        LET a == SwapCell(lastOp'.acc[1])
            b == SwapCell(lastOp'.acc[2])
        IN  /\ mem'[b] = mem[a]
            /\ mem'[a] = mem[b]
            /\ \A x \in DOMAIN mem : x \notin {a, b} => mem'[x] = mem[x]
            /\ DOMAIN mem' = DOMAIN mem
            /\ conts' = conts
            /\ a = b => mem' = mem

\* C11: swap(a, b), for a < b, a > b or a = b, leaves the former element of a
\* at b and the former element of b at a, every other position and the length
\* unchanged; swap(a, a) changes nothing.
C11_SwapExchanges == [][SwapExchanges]_vars

\* swap(a, b) with a > b has exchanged two different elements.
C11_Witness ==
    /\ lastOp.op = "swap" /\ status = "running"
    /\ lastOp.acc = <<1, 0>>
    /\ mem[conts[lastOp.c].off + 1] = 2 /\ mem[conts[lastOp.c].off + 2] = 1

\* swap(a, a) has been called.
C11_WitnessSame ==
    /\ lastOp.op = "swap" /\ status = "running"
    /\ lastOp.acc = <<1, 1>>


\* One region whose Container the client scans.
NextScan ==
    \/ Enter
    \/ ContainerRange
    \/ Nonempty
    \/ First
    \/ Last
    \/ UpperMiddle
    \/ Advance
    \/ IndexGet
    \/ IndexRange
    \/ ScanFrom
    \/ ScanFromRev

SpecScan == Init /\ [][NextScan]_vars

\* the Container of the last call, the Index it was given, its closure
Scanned_k == conts[lastOp.c]
Scanned_index == lastOp.res[1]
Holds(p) == unchecked(Scanned_k, p) \in lastOp.pred

\* C12: scan_from(index, f) returns the NonEmpty Range [index, e), e the
\* smallest position above index with e = len() or f false of the element at
\* e: the Range contains index, f holds of every element in (index, e), and
\* e <= len().
C12_ScanFromRange ==
    (lastOp.op = "scan_from" /\ status = "running") =>
        /\ rng.proof = "NonEmpty" /\ SameBrand(rng, Scanned_k)
        /\ rng.start = Scanned_index
        /\ rng.start < rng.end
        /\ rng.end <= Container_len(Scanned_k)
        /\ \A p \in rng.start + 1 .. rng.end - 1 : Holds(p)
        /\ rng.end = Container_len(Scanned_k) \/ ~Holds(rng.end)

\* scan_from stopped at once on an element the closure is false of: the
\* Range is the Index alone.
C12_Witness ==
    /\ lastOp.op = "scan_from" /\ status = "running"
    /\ rng.end = Scanned_index + 1
    /\ rng.end < Container_len(Scanned_k)
    /\ ~Holds(rng.end)

\* scan_from ran to the end of the storage.
C12_WitnessToEnd ==
    /\ lastOp.op = "scan_from" /\ status = "running"
    /\ rng.end > Scanned_index + 1
    /\ rng.end = Container_len(Scanned_k)

\* C13: scan_from_rev(index, f) returns the NonEmpty Range [s, index + 1), s
\* the largest position <= index with s = 0 or f false of the element at
\* s - 1: the Range contains index, f holds of every element in [s, index),
\* s >= 0, and f is not called on the element at index.
C13_ScanFromRevRange ==
    (lastOp.op = "scan_from_rev" /\ status = "running") =>
        /\ rng.proof = "NonEmpty" /\ SameBrand(rng, Scanned_k)
        /\ rng.end = Scanned_index + 1
        /\ rng.start >= 0 /\ rng.start <= Scanned_index
        /\ \A p \in rng.start .. Scanned_index - 1 : Holds(p)
        /\ rng.start = 0 \/ ~Holds(rng.start - 1)
        /\ \A j \in 1 .. Len(lastOp.acc) : lastOp.acc[j] # Scanned_index

\* scan_from_rev walked back over an element the closure holds of.
C13_Witness ==
    /\ lastOp.op = "scan_from_rev" /\ status = "running"
    /\ rng.start < Scanned_index
    /\ Holds(rng.start)

\* scan_from_rev stopped on the element just before the Index.
C13_WitnessStops ==
    /\ lastOp.op = "scan_from_rev" /\ status = "running"
    /\ rng.start = Scanned_index /\ rng.start > 0
    /\ ~Holds(rng.start - 1)

Mid == rng.start + ((rng.end - rng.start) \div 2)

\* split_in_half returns, and what the client keeps of it is the left half
\* [start, mid) with proof Unknown or the right half [mid, end) with the
\* proof of the Range; the right half is not shorter than the left.
HalvesAtMid ==
    lastOp'.op = "split_in_half" =>
        /\ status' = "running"
        /\ \/ rng' = [rng EXCEPT !.end = Mid, !.proof = "Unknown"]
           \/ rng' = [rng EXCEPT !.start = Mid]
        /\ (Mid - rng.start) + (rng.end - Mid) = rng.end - rng.start
        /\ rng.end - Mid >= Mid - rng.start
        /\ rng.start <= Mid /\ Mid <= rng.end

\* C14: split_in_half() of a Range [start, end) returns [start, mid) and
\* [mid, end) with mid = start + floor((end - start) / 2): the lengths add up
\* to len() and the right half is not shorter than the left.
C14_SplitInHalfAtMid == [][HalvesAtMid]_vars

\* nonempty() returns Some exactly when start < end, the Range it returns has
\* the start and end of the receiver and proof NonEmpty, and the call does
\* not fail or change the receiver.
SomeIffNonEmpty ==
    lastOp'.op = "nonempty" =>
        /\ status' = "running"
        /\ lastOp'.res = <<TRUE>> <=> rng.start < rng.end
        /\ lastOp'.res = <<TRUE>> => rng' = [rng EXCEPT !.proof = "NonEmpty"]
        /\ lastOp'.res = <<FALSE>> => rng' = rng
        /\ lastOp'.res \in {<<TRUE>>, <<FALSE>>}

\* C15: r.nonempty() is Some(NonEmpty Range with r's start and end) exactly
\* when r.start < r.end and None otherwise; it never fails and never changes
\* r.
C15_NonemptyExact == [][SomeIffNonEmpty]_vars

\* nonempty() has returned None for a Range with start = end.
C15_Witness ==
    /\ lastOp.op = "nonempty" /\ lastOp.res = <<FALSE>>
    /\ rng.proof = "Unknown" /\ rng.start = rng.end

\* nonempty() has returned Some.
C15_WitnessSome ==
    /\ lastOp.op = "nonempty" /\ lastOp.res = <<TRUE>>
    /\ rng.proof = "NonEmpty" /\ rng.start < rng.end

\* advance() returns true and moves the start up by one exactly when
\* start + 1 < end, advance_back() returns true and moves the end down by one
\* exactly when start < end - 1; otherwise they return false and change
\* nothing.  A Range with start < end keeps it, and stays within its span.
ShrinksWhenStillNonEmpty ==
    /\ lastOp'.op = "advance" =>
          /\ status' = "running"
          /\ IF rng.start + 1 < rng.end
             THEN lastOp'.res = <<TRUE>> /\ rng' = [rng EXCEPT !.start = rng.start + 1]
             ELSE lastOp'.res = <<FALSE>> /\ rng' = rng
    /\ lastOp'.op = "advance_back" =>
          /\ status' = "running"
          /\ IF rng.start < rng.end - 1
             THEN lastOp'.res = <<TRUE>> /\ rng' = [rng EXCEPT !.end = rng.end - 1]
             ELSE lastOp'.res = <<FALSE>> /\ rng' = rng
    /\ lastOp'.op \in {"advance", "advance_back"} =>
          /\ rng.start < rng.end => rng'.start < rng'.end
          /\ rng.start <= rng'.start /\ rng'.end <= rng.end
          /\ rng'.proof = "NonEmpty"

\* C16: on a NonEmpty Range [s, e), advance() returns true and makes it
\* [s+1, e) exactly when s + 1 < e, advance_back() returns true and makes it
\* [s, e-1) exactly when s < e - 1; otherwise each returns false and changes
\* nothing, so the Range keeps start < end and stays within its span.
C16_AdvanceKeepsNonEmpty == [][ShrinksWhenStillNonEmpty]_vars

\* upper_middle() returns the Index at start + floor((end - start) / 2) with
\* the brand and proof of the Range, which is where split_in_half() cuts; on
\* a NonEmpty Range it lies in [start, end).
UpperMiddleAtMid ==
    lastOp'.op = "upper_middle" =>
        /\ status' = "running"
        /\ integer(idx') = Mid
        /\ integer(idx') = split_in_half(rng)[2].start
        /\ SameBrand(idx', rng) /\ idx'.proof = rng.proof
        /\ rng.proof = "NonEmpty" => (rng.start <= integer(idx') /\ integer(idx') < rng.end)

\* C19: upper_middle() of a Range [start, end) is the Index at
\* start + floor((end - start) / 2), the cut point of split_in_half(); on a
\* NonEmpty Range it lies in [start, end).
C19_UpperMiddleAtMid == [][UpperMiddleAtMid]_vars


\* One region whose Ranges the client iterates over.
NextIter ==
    \/ Enter
    \/ ContainerRange
    \/ Nonempty
    \/ First
    \/ SplitIndex
    \/ RangeTail
    \/ IndexGet
    \/ IntoIter
    \/ IterNext
    \/ IterNextBack
    \/ IterLen

SpecIter == Init /\ [][NextIter]_vars

\* the positions of the iterated Range that no call has yielded yet
NotYetYielded == {p \in iter.from .. iter.to - 1 : iter.start <= p /\ p < iter.end}

\* next() yields the lowest position not yet yielded, next_back() the
\* highest, both None when there is none; neither changes the Range.
YieldsFromTheEnds ==
    /\ lastOp'.op \in {"next", "next_back"} =>
          /\ status' = "running"
          /\ rng' = rng
          /\ lastOp'.res = <<NotYetYielded # {}>>
          /\ NotYetYielded = {} => (iter' = iter /\ idx' = idx)
    /\ (lastOp'.op = "next" /\ NotYetYielded # {}) =>
          /\ \A p \in NotYetYielded : integer(idx') <= p
          /\ NotYetYielded' = NotYetYielded \ {integer(idx')}
          /\ integer(idx') \in NotYetYielded
    /\ (lastOp'.op = "next_back" /\ NotYetYielded # {}) =>
          /\ \A p \in NotYetYielded : integer(idx') >= p
          /\ NotYetYielded' = NotYetYielded \ {integer(idx')}
          /\ integer(idx') \in NotYetYielded
    /\ lastOp'.op = "into_iter" =>
          /\ rng' = rng
          /\ NotYetYielded' = {p \in rng.start .. rng.end - 1 : TRUE}
    /\ lastOp'.op = "iter_len" =>
          /\ status' = "running"
          /\ lastOp'.res = <<Cardinality(NotYetYielded)>>

\* C17: under any interleaving, next() yields the positions of [start, end)
\* ascending and next_back() descending, each position once in total and
\* none outside; when all are yielded both return None; len() is the number
\* of positions not yet yielded; the Range is unchanged.
C17_IterationYieldsEachOnce == [][YieldsFromTheEnds]_vars

====
